---- MODULE Spec2Model ----
(***************************************************************************)
(* Model of hastighed/gpkg/query_speed_limit.py: the nearest-road resolver *)
(* find_nearest, the speed normalizer parse_maxspeed and the fallback      *)
(* classifier dk_fallback_speed.                                           *)
(*                                                                         *)
(* Units.  One coordinate unit is deg_per_meter_lat * 100 degrees, i.e.    *)
(* the angle of 100 m of latitude; radii are in units of 100 m.  Feature   *)
(* coordinates are offsets from the query point.  A Python None is the     *)
(* empty tuple <<>> and a present value v is <<v>>.  Strings that the code *)
(* parses are tuples of one-character strings.  Speeds are integers in     *)
(* units of 1/KmhScale km/h.                                               *)
(***************************************************************************)
EXTENDS Integers, Sequences, FiniteSets, TLC

VARIABLES gpkg, store, honours, lat, radius_m, arg_max_radius, max_radius_m,
          drivable_only, prefer_tagged, prefer_motorways,
          pc, cur_radius, best, outcome, result,
          spatial_filter, attr_filter,
          radii, passes, scans, swallowed, calls,
          call, first,
          mpc, address, args_lat, args_lon, have_coords, candidates, qi, prov,
          tried, last_reply, exit_status

vars == <<gpkg, store, honours, lat, radius_m, arg_max_radius, max_radius_m,
          drivable_only, prefer_tagged, prefer_motorways,
          pc, cur_radius, best, outcome, result,
          spatial_filter, attr_filter,
          radii, passes, scans, swallowed, calls,
          call, first,
          mpc, address, args_lat, args_lon, have_coords, candidates, qi, prov,
          tried, last_reply, exit_status>>

\* gpkg, store, honours: the GeoPackage file and its 'roads' layer.
\* lat .. prefer_motorways: the arguments of the call (the query point is the
\*   origin of the coordinate units; max_radius_m is the local the code clamps).
\* pc, cur_radius, best: the position in find_nearest and its locals.
\* outcome, result: "pending", "returned" (result is the value) or "raised".
\* spatial_filter, attr_filter: the filters set on the layer.
\* radii, passes, scans, swallowed, calls: observations of the call: the radii
\*   searched, the number of passes, the scans of the last pass, whether a
\*   Distance exception was swallowed, and the calls of the two helpers.
\* call, first: the number of the call in progress (1 or 2) and, during a
\*   second call with the same arguments, what the first call returned.
\* mpc .. exit_status: the command-line program around find_nearest: its
\*   position ("none" when find_nearest is called directly), the shape of
\*   --address (None when not given), whether --lat and --lon were given,
\*   whether lat and lon are both known by now, the candidate queries in the
\*   order the loop visits them, the indices of the candidate and provider
\*   tried next, the geocoder calls made so far, the reply to the last of
\*   them, and the exit status (None while running).

inputs == <<gpkg, store, honours, lat, radius_m, arg_max_radius,
            drivable_only, prefer_tagged, prefer_motorways>>

caller == <<call, first>>

cli == <<mpc, address, args_lat, args_lon, have_coords, candidates, qi, prov,
         tried, last_reply, exit_status>>

None == <<>>
Some(v) == <<v>>

(***************************************************************************)
(* Bounds of the model.                                                    *)
(***************************************************************************)
MaxFeatures == 2
MaxPasses == 4

(***************************************************************************)
(* Small helpers.                                                          *)
(***************************************************************************)
Max(a, b) == IF a > b THEN a ELSE b

RECURSIVE SeqsUpTo(_, _)
\* All sequences without a bound on repetition, of length at most n, over S.
SeqsUpTo(S, n) ==
    IF n = 0 THEN {<<>>}
    ELSE LET shorter == SeqsUpTo(S, n - 1)
         IN  shorter \cup {Append(s, x) : s \in {t \in shorter : Len(t) = n - 1}, x \in S}

(***************************************************************************)
(* haversine_deg_scale: degrees per metre of longitude and latitude, in    *)
(* coordinate units per radius unit.  cos(lat) is tabulated times 10000    *)
(* for the latitudes the model uses; the floor 0.0001 is 1 on that scale.  *)
(***************************************************************************)
CosTimes10000(la) == IF la = 0 THEN 10000 ELSE IF la = 60 THEN 5000 ELSE 0

haversine_deg_scale(la) ==
    [deg_per_meter_lon |-> 10000 \div Max(1, CosTimes10000(la)),
     deg_per_meter_lat |-> 1]

(***************************************************************************)
(* Module-level tables.                                                    *)
(***************************************************************************)
DRIVABLE ==
    {"motorway", "trunk", "primary", "secondary", "tertiary",
     "unclassified", "residential", "service", "living_street",
     "motorway_link", "trunk_link", "primary_link", "secondary_link", "tertiary_link"}

PRIORITY_TIERS ==
    << {"motorway", "motorway_link"},
       {"trunk", "trunk_link"},
       {"primary", "primary_link"},
       {"secondary", "secondary_link"},
       {"tertiary", "tertiary_link"},
       {"unclassified", "residential", "service", "living_street"} >>

(***************************************************************************)
(* Character-level string operations used by parse_maxspeed.               *)
(***************************************************************************)
UpperChars == <<"A", "B", "C", "D", "E", "F", "G", "H", "I", "J", "K", "L", "M",
                "N", "O", "P", "Q", "R", "S", "T", "U", "V", "W", "X", "Y", "Z">>

LowerChars == <<"a", "b", "c", "d", "e", "f", "g", "h", "i", "j", "k", "l", "m",
                "n", "o", "p", "q", "r", "s", "t", "u", "v", "w", "x", "y", "z">>

DigitChars == <<"0", "1", "2", "3", "4", "5", "6", "7", "8", "9">>

Range(s) == {s[i] : i \in DOMAIN s}

\* str.lower() on one character.
LowerChar(c) ==
    IF c \in Range(UpperChars)
    THEN LowerChars[CHOOSE i \in DOMAIN UpperChars : UpperChars[i] = c]
    ELSE c

\* str.lower()
Lower(s) == [i \in DOMAIN s |-> LowerChar(s[i])]

\* ch.isdigit()
IsDigit(c) == c \in Range(DigitChars)

DigitVal(c) == (CHOOSE i \in DOMAIN DigitChars : DigitChars[i] = c) - 1

\* ''.join(ch for ch in s if keep(ch)), for the two filters the code uses.
RECURSIVE RemoveSpaces(_)
RemoveSpaces(s) ==
    IF s = <<>> THEN <<>>
    ELSE IF Head(s) = " " THEN RemoveSpaces(Tail(s))
    ELSE <<Head(s)>> \o RemoveSpaces(Tail(s))

RECURSIVE DigitsAndDots(_)
DigitsAndDots(s) ==
    IF s = <<>> THEN <<>>
    ELSE IF IsDigit(Head(s)) \/ Head(s) = "." THEN <<Head(s)>> \o DigitsAndDots(Tail(s))
    ELSE DigitsAndDots(Tail(s))

\* str.strip(): leading and trailing blanks removed.
RECURSIVE LStrip(_)
LStrip(s) == IF s # <<>> /\ Head(s) = " " THEN LStrip(Tail(s)) ELSE s

RECURSIVE RStrip(_)
RStrip(s) ==
    IF s # <<>> /\ s[Len(s)] = " " THEN RStrip(SubSeq(s, 1, Len(s) - 1)) ELSE s

Strip(s) == RStrip(LStrip(s))

\* s.endswith(suffix)
EndsWith(s, suffix) ==
    /\ Len(s) >= Len(suffix)
    /\ SubSeq(s, Len(s) - Len(suffix) + 1, Len(s)) = suffix

\* s[:-n]
DropLast(s, n) == SubSeq(s, 1, Len(s) - n)

(***************************************************************************)
(* float(text) for a text of digits and dots, as a number of 1/KmhScale.   *)
(* Python accepts digits with at most one dot and at least one digit;      *)
(* anything else raises ValueError, modelled as None.                      *)
(***************************************************************************)
KmhScale == 100000
MphFactorScaled == 160934

RECURSIVE IntOfDigits(_)
IntOfDigits(ds) ==
    IF ds = <<>> THEN 0
    ELSE 10 * IntOfDigits(SubSeq(ds, 1, Len(ds) - 1)) + DigitVal(ds[Len(ds)])

RECURSIVE FracOfDigits(_, _)
\* The fraction .d1d2... in units of 1/scale, digits below the unit dropped.
FracOfDigits(ds, scale) ==
    IF ds = <<>> \/ scale < 10 THEN 0
    ELSE DigitVal(Head(ds)) * (scale \div 10) + FracOfDigits(Tail(ds), scale \div 10)

ParseFloat(text) ==
    LET dots == {i \in DOMAIN text : text[i] = "."}
        digs == {i \in DOMAIN text : IsDigit(text[i])}
    IN  IF Cardinality(dots) > 1 \/ digs = {} THEN None
        ELSE IF dots = {} THEN Some(IntOfDigits(text) * KmhScale)
        ELSE LET d == CHOOSE i \in dots : TRUE
             IN  Some(IntOfDigits(SubSeq(text, 1, d - 1)) * KmhScale
                      + FracOfDigits(SubSeq(text, d + 1, Len(text)), KmhScale))

\* num * 1.60934 for num in units of 1/KmhScale, digits below the unit dropped:
\* (num * MphFactorScaled) \div KmhScale, multiplied in three parts so that no
\* intermediate product leaves the 32-bit range of the checker's integers.
TimesMphFactor(num) ==
    LET whole == num \div KmhScale
        frac  == num % KmhScale
        hi    == (frac \div 100) * MphFactorScaled
        lo    == (frac % 100) * MphFactorScaled
    IN  whole * MphFactorScaled + hi \div 1000 + (100 * (hi % 1000) + lo) \div KmhScale

(***************************************************************************)
(* parse_maxspeed: (raw, numeric_kmh) from a maxspeed value (None or text).*)
(***************************************************************************)
\* A normalizer that tries the plain-number rule before the unit suffixes.
parse_maxspeed_digits_first(val) ==
    IF val = None \/ val[1] = <<>> THEN [raw |-> None, kmh |-> None]
    ELSE
      LET raw == Strip(val[1])
          s   == RemoveSpaces(Lower(raw))
      IN  IF \E i \in DOMAIN s : IsDigit(s[i])
          THEN [raw |-> Some(raw), kmh |-> ParseFloat(DigitsAndDots(s))]
          ELSE [raw |-> Some(raw), kmh |-> None]

parse_maxspeed(val) ==
    IF val = None \/ val[1] = <<>> THEN [raw |-> None, kmh |-> None]
    ELSE
      LET raw == Strip(val[1])
          s   == RemoveSpaces(Lower(raw))
      IN  IF EndsWith(s, <<"m", "p", "h">>)
          THEN LET num == ParseFloat(DigitsAndDots(DropLast(s, 3)))
               IN  IF num = None THEN [raw |-> Some(raw), kmh |-> None]
                   ELSE [raw |-> Some(raw),
                         kmh |-> Some(TimesMphFactor(num[1]))]
          ELSE IF EndsWith(s, <<"k", "m", "/", "h">>)
          THEN [raw |-> Some(raw), kmh |-> ParseFloat(DigitsAndDots(DropLast(s, 4)))]
          ELSE IF \E i \in DOMAIN s : IsDigit(s[i])
          THEN [raw |-> Some(raw), kmh |-> ParseFloat(DigitsAndDots(s))]
          ELSE IF \E i \in DOMAIN s : s[i] = ":"
          THEN [raw |-> Some(raw), kmh |-> None]
          ELSE [raw |-> Some(raw), kmh |-> None]

(***************************************************************************)
(* dk_fallback_speed: default km/h for a road class (None or a name).      *)
(* Road-class names are atomic strings; HighwayLower is str.lower() on the *)
(* names the model uses.                                                   *)
(***************************************************************************)
HighwayLower(h) ==
    IF h = "Motorway" THEN "motorway"
    ELSE IF h = "Residential" THEN "residential"
    ELSE h

\* A classifier that answers the residential default for an unknown class.
dk_fallback_speed_default(highway) ==
    IF highway = None \/ highway[1] = "" THEN None
    ELSE LET h == HighwayLower(highway[1])
         IN  IF h = "motorway" THEN Some(130 * KmhScale)
             ELSE IF h \in {"trunk"} THEN Some(110 * KmhScale)
             ELSE IF h \in {"primary", "secondary", "tertiary", "unclassified"}
                  THEN Some(80 * KmhScale)
             ELSE IF h \in {"living_street"} THEN Some(15 * KmhScale)
             ELSE IF h \in {"service"} THEN Some(30 * KmhScale)
             ELSE Some(50 * KmhScale)

dk_fallback_speed(highway) ==
    IF highway = None \/ highway[1] = "" THEN None
    ELSE LET h == HighwayLower(highway[1])
         IN  IF h = "motorway" THEN Some(130 * KmhScale)
             ELSE IF h \in {"trunk"} THEN Some(110 * KmhScale)
             ELSE IF h \in {"primary", "secondary", "tertiary", "unclassified"}
                  THEN Some(80 * KmhScale)
             ELSE IF h \in {"residential"} THEN Some(50 * KmhScale)
             ELSE IF h \in {"living_street"} THEN Some(15 * KmhScale)
             ELSE IF h \in {"service"} THEN Some(30 * KmhScale)
             ELSE None

(***************************************************************************)
(* The geometry store (the 'roads' layer behind osgeo.ogr).  A feature is  *)
(* a point geometry pos, a highway field, a maxspeed field and distOk,     *)
(* which tells whether geom.Distance(point) returns (TRUE) or raises.      *)
(***************************************************************************)
Abs(a) == IF a < 0 THEN -a ELSE a

\* The rectangle find_nearest hands to layer.SetSpatialFilterRect, with the
\* query point at the origin of the coordinate units.
SearchBox(la, r) ==
    LET sc == haversine_deg_scale(la)
        dx == sc.deg_per_meter_lon * r
        dy == sc.deg_per_meter_lat * r
    IN  [minx |-> 0 - dx, miny |-> 0 - dy, maxx |-> 0 + dx, maxy |-> 0 + dy]

\* The spatial filter: the feature's geometry meets the rectangle.  A feature
\* without geometry (pos = None) is let through, so that the scan's own test
\* "if geom is None: continue" decides about it.
Intersects(f, box) ==
    \/ f.pos = None
    \/ /\ box.minx <= f.pos[1] /\ f.pos[1] <= box.maxx
       /\ box.miny <= f.pos[2] /\ f.pos[2] <= box.maxy

\* The attribute filter "highway IN (cats) [AND maxspeed IS NOT NULL]".
Matches(f, where) ==
    /\ f.highway # None
    /\ f.highway[1] \in where.cats
    /\ (where.tagged => f.maxspeed # None)

\* "for feat in layer" under the spatial filter box and the attribute filter
\* (None: no attribute filter).  A store that does not honour attribute
\* filters returns every feature of the box.
LayerFeatures(st, box, filter, hon) ==
    SelectSeq(st, LAMBDA f : /\ Intersects(f, box)
                             /\ (filter = None \/ ~hon \/ Matches(f, filter[1])))

\* geom.Distance(point): the model's geometries lie on the axes, so the
\* Euclidean distance is an integer.
Distance(f) ==
    CHOOSE d \in 0..(Abs(f.pos[1]) + Abs(f.pos[2])) :
        d * d = f.pos[1] * f.pos[1] + f.pos[2] * f.pos[2]

RECURSIVE NearestFrom_last(_, _)
\* A scan loop that replaces the candidate on "dist <= best[0]": of features
\* at equal distance the last one wins.
NearestFrom_last(feats, acc) ==
    IF feats = <<>> THEN acc
    ELSE LET f == Head(feats)
         IN  IF f.pos = None \/ ~f.distOk THEN NearestFrom_last(Tail(feats), acc)
             ELSE IF acc = None \/ Distance(f) <= acc[1].dist
                  THEN NearestFrom_last(Tail(feats), Some([dist |-> Distance(f), feat |-> f]))
                  ELSE NearestFrom_last(Tail(feats), acc)

RECURSIVE NearestFrom(_, _)
\* The scan loop: keep the first feature of strictly smallest distance; a
\* feature without geometry, or whose distance computation raises, is
\* skipped.
NearestFrom(feats, acc) ==
    IF feats = <<>> THEN acc
    ELSE LET f == Head(feats)
         IN  IF f.pos = None \/ ~f.distOk THEN NearestFrom(Tail(feats), acc)
             ELSE IF acc = None \/ Distance(f) < acc[1].dist
                  THEN NearestFrom(Tail(feats), Some([dist |-> Distance(f), feat |-> f]))
                  ELSE NearestFrom(Tail(feats), acc)

\* where_list for a class set: the tagged filter first when prefer_tagged.
WhereList(cats, pt) ==
    (IF pt THEN <<[cats |-> cats, tagged |-> TRUE]>> ELSE <<>>)
    \o <<[cats |-> cats, tagged |-> FALSE]>>

\* The number of features of a scan whose Distance call raises.
Raising(feats) == Len(SelectSeq(feats, LAMBDA f : f.pos # None /\ ~f.distOk))

RECURSIVE ScanWheresFrom(_, _, _, _, _, _)
\* "for where in where_list": scan under each filter until one scan finds a
\* feature.  Returns the best candidate, the number of scans made and the
\* number of Distance exceptions swallowed, counted on from scans and errs.
ScanWheresFrom(st, box, wl, hon, scans0, errs0) ==
    IF wl = <<>> THEN [best |-> None, scans |-> scans0, errs |-> errs0]
    ELSE LET feats == LayerFeatures(st, box, Some(Head(wl)), hon)
             b     == NearestFrom(feats, None)
         IN  IF b # None
             THEN [best |-> b, scans |-> scans0 + 1, errs |-> errs0 + Raising(feats)]
             ELSE ScanWheresFrom(st, box, Tail(wl), hon, scans0 + 1, errs0 + Raising(feats))

ScanWheres(st, box, wl, hon) == ScanWheresFrom(st, box, wl, hon, 0, 0)

RECURSIVE TierScanFrom(_, _, _, _, _, _, _)
\* "for tier in PRIORITY_TIERS": stop at the first tier with a candidate.
TierScanFrom(st, box, tiers, pt, hon, scans0, errs0) ==
    IF tiers = <<>> THEN [best |-> None, scans |-> scans0, errs |-> errs0]
    ELSE CHOOSE r \in
           { IF t.best # None THEN t
             ELSE TierScanFrom(st, box, Tail(tiers), pt, hon, t.scans, t.errs)
             : t \in { ScanWheresFrom(st, box, WhereList(Head(tiers), pt), hon,
                                      scans0, errs0) } } : TRUE

\* A tier loop that merges the tiers into one class set.
TierScan_nearest(st, box, tiers, pt, hon) ==
    ScanWheres(st, box, WhereList(UNION {tiers[i] : i \in DOMAIN tiers}, pt), hon)

TierScan(st, box, tiers, pt, hon) == TierScanFrom(st, box, tiers, pt, hon, 0, 0)

NoScan == [best |-> None, scans |-> 0, errs |-> 0]

\* 1) priority tiers, if requested
TierPass(st, box, pm, pt, hon) ==
    IF pm THEN TierScan(st, box, PRIORITY_TIERS, pt, hon) ELSE NoScan

\* 2) drivable filter fallback; the code tests only "best is None" and never
\* reads drivable_only
DrivablePass(st, box, dro, pt, hon) ==
    ScanWheres(st, box, WhereList(DRIVABLE, pt), hon)

\* A pass without the any-feature fallback: a box that holds only features
\* outside the drivable classes counts as empty.
AnyFeaturePass_off(st, box, hon) == NoScan

\* 3) any feature fallback
AnyFeaturePass(st, box, hon) ==
    LET feats == LayerFeatures(st, box, None, hon)
    IN  [best |-> NearestFrom(feats, None), scans |-> 1, errs |-> Raising(feats)]

\* The outcome of a pass from the outcomes of its parts: the first candidate
\* found, and the scans and swallowed exceptions of the parts that ran.
FirstOf(t, d, a) ==
    [best  |-> IF t.best # None THEN t.best
               ELSE IF d.best # None THEN d.best ELSE a.best,
     scans |-> t.scans + d.scans + a.scans,
     errs  |-> t.errs + d.errs + a.errs]

\* One iteration of the while loop at radius r.  (Each part is bound once,
\* as an element of a one-element set.)
PassResult(st, la, r, pm, dro, pt, hon) ==
    LET box == SearchBox(la, r)
    IN  CHOOSE p \in
          UNION { UNION { { FirstOf(t, d, IF t.best = None /\ d.best = None
                                          THEN AnyFeaturePass(st, box, hon)
                                          ELSE NoScan) }
                          : d \in { IF t.best = None
                                    THEN DrivablePass(st, box, dro, pt, hon)
                                    ELSE NoScan } }
                  : t \in { TierPass(st, box, pm, pt, hon) } } : TRUE

RECURSIVE TierFilters(_, _)
\* The attribute filters of the tier loop, in the order the scans set them.
TierFilters(tiers, pt) ==
    IF tiers = <<>> THEN <<>>
    ELSE WhereList(Head(tiers), pt) \o TierFilters(Tail(tiers), pt)

\* The attribute filter of every scan a pass can make, in order: the tiers
\* (with prefer_motorways), the drivable classes, and no filter (None) for
\* the any-feature scan.  A pass makes a prefix of these scans: it stops
\* after the first scan that finds a candidate.
PassFilters(pm, pt) ==
    LET wheres == (IF pm THEN TierFilters(PRIORITY_TIERS, pt) ELSE <<>>)
                  \o WhereList(DRIVABLE, pt)
    IN  [n \in 1..(Len(wheres) + 1) |->
            IF n <= Len(wheres) THEN Some(wheres[n]) ELSE None]

\* Whether one of the first n scans of a pass swallows a Distance exception.
SwallowedIn(st, box, fs, n, hon) ==
    \E j \in 1..n : Raising(LayerFeatures(st, box, fs[j], hon)) > 0

\* A radius that grows threefold.
NextRadius_triple(r) == r * 3

\* "cur_radius *= 2.0"
NextRadius(r) == r * 2

\* The loop test "best is None and cur_radius <= max_radius_m"
LoopCondition == best = None /\ cur_radius <= max_radius_m

\* A result that is a zero-filled record when nothing was found.
Props_zero(b) ==
    IF b = None
    THEN Some([highway |-> None, maxspeed_raw |-> None, maxspeed_kmh |-> Some(0),
               distance_deg |-> 0])
    ELSE Some([highway      |-> b[1].feat.highway,
               maxspeed_raw |-> parse_maxspeed(b[1].feat.maxspeed).raw,
               maxspeed_kmh |-> parse_maxspeed(b[1].feat.maxspeed).kmh,
               distance_deg |-> b[1].dist])

\* A result that asks the classifier whenever the parsed speed is falsy
\* ("if not kmh"), a parsed 0 included.
Props_falsy(b) ==
    IF b = None THEN None
    ELSE LET feat   == b[1].feat
             parsed == parse_maxspeed(feat.maxspeed)
         IN  Some([highway      |-> feat.highway,
                   maxspeed_raw |-> parsed.raw,
                   maxspeed_kmh |-> IF parsed.kmh = None \/ parsed.kmh = Some(0)
                                    THEN dk_fallback_speed(feat.highway)
                                    ELSE parsed.kmh,
                   distance_deg |-> b[1].dist])

\* The value find_nearest returns: None, or the props of the winner.
Props(b) ==
    IF b = None THEN None
    ELSE LET feat   == b[1].feat
             parsed == parse_maxspeed(feat.maxspeed)
         IN  Some([highway      |-> feat.highway,
                   maxspeed_raw |-> parsed.raw,
                   maxspeed_kmh |-> IF parsed.kmh = None
                                    THEN dk_fallback_speed(feat.highway)
                                    ELSE parsed.kmh,
                   distance_deg |-> b[1].dist])

\* How often parse_maxspeed and dk_fallback_speed are called on return.
CallsOf(b) ==
    IF b = None THEN [parse |-> 0, fallback |-> 0]
    ELSE [parse    |-> 1,
          fallback |-> IF parse_maxspeed(b[1].feat.maxspeed).kmh = None THEN 1 ELSE 0]

(***************************************************************************)
(* Inputs of the model.                                                    *)
(***************************************************************************)
Points == {<<8, 0>>, <<0, 9>>}
Highways == {"motorway", "residential", "footway"}
Tags == {None, Some(<<>>), Some(<<"5", "0">>)}
Lats == {0, 60}
\* <<radius_m, max_radius_m>> as passed by the caller
RadiusArgs == {<<0, -1>>, <<5, -1>>, <<5, 9>>, <<5, 50>>}

Features ==
    [pos : Points, highway : {Some(h) : h \in Highways}, maxspeed : Tags, distOk : {TRUE}]

Stores == SeqsUpTo(Features, MaxFeatures)

(***************************************************************************)
(* The state machine: one call of find_nearest.                            *)
(***************************************************************************)
\* find_nearest called directly, not from the command-line program.
NoMain ==
    /\ mpc = "none"
    /\ address = None
    /\ args_lat = TRUE
    /\ args_lon = TRUE
    /\ have_coords = TRUE
    /\ candidates = <<>>
    /\ qi = 1
    /\ prov = 1
    /\ tried = <<>>
    /\ last_reply = "none"
    /\ exit_status = None

InitCall ==
    /\ pc = "start"
    /\ max_radius_m = arg_max_radius
    /\ cur_radius = radius_m
    /\ best = None
    /\ outcome = "pending"
    /\ result = None
    /\ spatial_filter = None
    /\ attr_filter = None
    /\ radii = <<>>
    /\ passes = 0
    /\ scans = 0
    /\ swallowed = FALSE
    /\ calls = [parse |-> 0, fallback |-> 0]
    /\ call = 1
    /\ first = None
    /\ NoMain

InitArgs ==
    /\ lat \in Lats
    /\ \E a \in RadiusArgs : radius_m = a[1] /\ arg_max_radius = a[2]
    /\ drivable_only \in BOOLEAN
    /\ prefer_tagged \in BOOLEAN
    /\ prefer_motorways \in BOOLEAN

\* A GeoPackage read through GDAL: attribute filters are honoured and every
\* distance can be computed.
Init ==
    /\ gpkg \in {"ok", "unopenable", "nolayer"}
    /\ store \in IF gpkg = "ok" THEN Stores ELSE {<<>>}
    /\ honours = TRUE
    /\ InitArgs
    /\ InitCall

observations == <<radii, passes, scans, swallowed, calls>>
filters == <<spatial_filter, attr_filter>>

\* An entry that keeps the candidate and the radius where an earlier call
\* left them (state kept outside the call instead of "best = None" and
\* "cur_radius = radius_m").
Open_keeps_state ==
    /\ pc = "start"
    /\ gpkg = "ok"
    /\ pc' = "loop"
    /\ max_radius_m' = IF radius_m > arg_max_radius THEN radius_m ELSE arg_max_radius
    /\ UNCHANGED <<cur_radius, best>>
    /\ UNCHANGED <<inputs, caller, cli, outcome, result, filters, observations>>

\* ogr.Open and GetLayerByName succeed; the locals are set from the arguments
\* of this call: best = None, the radius clamp of the max_radius_m argument,
\* cur_radius = radius_m.
Open ==
    /\ pc = "start"
    /\ gpkg = "ok"
    /\ pc' = "loop"
    /\ max_radius_m' = IF radius_m > arg_max_radius THEN radius_m ELSE arg_max_radius
    /\ cur_radius' = radius_m
    /\ best' = None
    /\ UNCHANGED <<inputs, caller, cli, outcome, result, filters, observations>>

\* ogr.Open returns None: RuntimeError.
OpenFails ==
    /\ pc = "start"
    /\ gpkg = "unopenable"
    /\ pc' = "done"
    /\ outcome' = "raised"
    /\ UNCHANGED <<inputs, caller, cli, max_radius_m, cur_radius, best, result, filters, observations>>

\* GetLayerByName returns None: RuntimeError.
LayerMissing ==
    /\ pc = "start"
    /\ gpkg = "nolayer"
    /\ pc' = "done"
    /\ outcome' = "raised"
    /\ UNCHANGED <<inputs, caller, cli, max_radius_m, cur_radius, best, result, filters, observations>>

\* The loop test holds: the box of the pass becomes the spatial filter.
BeginPass ==
    /\ pc = "loop"
    /\ LoopCondition
    /\ pc' = "scan"
    /\ spatial_filter' = Some(SearchBox(lat, cur_radius))
    /\ radii' = IF Len(radii) < MaxPasses THEN Append(radii, cur_radius) ELSE radii
    /\ passes' = IF passes < MaxPasses THEN passes + 1 ELSE passes
    /\ UNCHANGED <<inputs, caller, cli, max_radius_m, cur_radius, best, outcome, result,
                   attr_filter, scans, swallowed, calls>>

\* The body of the loop: the three passes, the filters cleared, the radius
\* doubled when nothing was found.
\* A pass that ends without layer.SetSpatialFilter(None): the rectangle of the
\* pass stays on the layer.
ClearFilters_spatial_left == [attr |-> None, spatial |-> spatial_filter]

\* The layer's filters at the end of a pass: "Clear filters for next radius
\* iteration".
ClearFilters == [attr |-> None, spatial |-> None]

SearchPass ==
    /\ pc = "scan"
    /\ \E p \in {PassResult(store, lat, cur_radius, prefer_motorways, drivable_only,
                               prefer_tagged, honours)} :
           /\ best' = p.best
           /\ scans' = p.scans
           /\ swallowed' = (swallowed \/ p.errs > 0)
           /\ cur_radius' = IF p.best = None THEN NextRadius(cur_radius) ELSE cur_radius
    /\ attr_filter' = ClearFilters.attr
    /\ spatial_filter' = ClearFilters.spatial
    /\ pc' = "loop"
    /\ UNCHANGED <<inputs, caller, cli, max_radius_m, outcome, result, radii, passes, calls>>

\* The loop test fails: build and return the result.
Return ==
    /\ pc = "loop"
    /\ ~LoopCondition
    /\ pc' = "done"
    /\ outcome' = "returned"
    /\ spatial_filter' = None
    /\ result' = Props(best)
    /\ calls' = CallsOf(best)
    /\ UNCHANGED <<inputs, caller, cli, max_radius_m, cur_radius, best, attr_filter,
                   radii, passes, scans, swallowed>>

Next == Open \/ OpenFails \/ LayerMissing \/ BeginPass \/ SearchPass \/ Return

Spec == Init /\ [][Next]_vars

\* The call is sequential code: a step that can be taken is taken.  The
\* stores of this specification hold at most one feature.
InitFair ==
    /\ gpkg \in {"ok", "unopenable", "nolayer"}
    /\ store \in IF gpkg = "ok" THEN {st \in Stores : Len(st) <= 1} ELSE {<<>>}
    /\ honours = TRUE
    /\ InitArgs
    /\ InitCall

FairSpec == InitFair /\ [][Next]_vars /\ WF_vars(Next)

(***************************************************************************)
(* Two calls with identical arguments against the same store.  The second  *)
(* call has a new frame: max_radius_m is bound to the argument again, and  *)
(* the locals best and cur_radius are not bound until the call assigns     *)
(* them (lines 126 and 132).  A local that is not bound has no value, so   *)
(* the variable that stands for it holds any value here, the one the first *)
(* call left in it or the one a first call starts with: it is for the code *)
(* of the call (Open) to assign it before it is read.  The layer's filters *)
(* stay as the first call left them.  The caller's side is new: the        *)
(* pending return value and the observations of the call.                  *)
(***************************************************************************)
CallAgain ==
    /\ pc = "done"
    /\ call = 1
    /\ call' = 2
    /\ first' = Some([outcome |-> outcome, result |-> result,
                      radii |-> radii, passes |-> passes, scans |-> scans])
    /\ pc' = "start"
    /\ max_radius_m' = arg_max_radius
    /\ cur_radius' \in {radius_m, cur_radius}
    /\ best' \in {None, best}
    /\ outcome' = "pending"
    /\ result' = None
    /\ radii' = <<>>
    /\ passes' = 0
    /\ scans' = 0
    /\ swallowed' = FALSE
    /\ calls' = [parse |-> 0, fallback |-> 0]
    /\ UNCHANGED <<inputs, cli, filters>>

\* The first of the two calls, with drivable_only and prefer_tagged at their
\* defaults.
InitTwice ==
    /\ gpkg \in {"ok", "unopenable", "nolayer"}
    /\ store \in IF gpkg = "ok" THEN Stores ELSE {<<>>}
    /\ honours = TRUE
    /\ lat \in Lats
    /\ \E a \in RadiusArgs : radius_m = a[1] /\ arg_max_radius = a[2]
    /\ drivable_only = TRUE
    /\ prefer_tagged = TRUE
    /\ prefer_motorways \in BOOLEAN
    /\ InitCall

NextTwice == Next \/ CallAgain

SpecTwice == InitTwice /\ [][NextTwice]_vars

(***************************************************************************)
(* The command-line program (__main__).  An address is modelled by what    *)
(* the candidate construction reads of it: whether it holds a house number *)
(* range ("6-14"), a Danish letter, and the word "denmark".  A base is the *)
(* address with or without the range simplified and the letters            *)
(* transliterated; the bases are the elements of a Python set, so the loop *)
(* may visit them in any order.  A geocoder's reply is "answer" (a pair of *)
(* coordinates), "empty" (None) or "exception".                            *)
(***************************************************************************)
Addresses == [range : BOOLEAN, letters : BOOLEAN, denmark : BOOLEAN]

\* {q_orig, q_simple, q_orig.translate(ascii_map), q_simple.translate(ascii_map)}
Bases(a) ==
    {[simple |-> sm, ascii |-> as] : sm \in {FALSE} \cup {a.range},
                                     as \in {FALSE} \cup {a.letters}}

\* The queries of one base: the base, and the base with ", Denmark" when the
\* base does not hold "denmark".
QueriesOf(a, b) ==
    IF a.denmark THEN <<[base |-> b, suffix |-> FALSE]>>
    ELSE <<[base |-> b, suffix |-> FALSE], [base |-> b, suffix |-> TRUE]>>

RECURSIVE CandidatesIn(_, _)
CandidatesIn(a, order) ==
    IF order = <<>> THEN <<>>
    ELSE QueriesOf(a, Head(order)) \o CandidatesIn(a, Tail(order))

\* The orders in which "for base in {...}" may visit the bases.
BaseOrders(a) ==
    {o \in [1..Cardinality(Bases(a)) -> Bases(a)] :
        \A i, j \in DOMAIN o : o[i] = o[j] => i = j}

\* A provider list with Photon first.
Providers_photon_first == <<"photon", "nominatim">>

\* "for provider in (geocode_nominatim, geocode_photon)"
Providers == <<"nominatim", "photon">>

Replies == {"answer", "empty", "exception"}

MainStores ==
    {<<>>}
    \cup {<<[pos |-> <<8, 0>>, highway |-> Some("motorway"),
             maxspeed |-> Some(<<"5", "0">>), distOk |-> TRUE]>>,
          <<[pos |-> <<8, 0>>, highway |-> Some("footway"),
             maxspeed |-> None, distOk |-> TRUE]>>}

\* The program after argparse: the options, and find_nearest not yet called.
\* lat is the latitude find_nearest is called with, if it is called: --lat,
\* or the latitude a geocoder answers.
InitMain ==
    /\ gpkg \in {"ok", "unopenable"}
    /\ store \in IF gpkg = "ok" THEN MainStores ELSE {<<>>}
    /\ honours = TRUE
    /\ lat = 60
    /\ radius_m = 5 /\ arg_max_radius = 50
    /\ drivable_only = TRUE
    /\ prefer_tagged = TRUE
    /\ prefer_motorways \in BOOLEAN
    /\ pc = "idle"
    /\ max_radius_m = arg_max_radius
    /\ cur_radius = radius_m
    /\ best = None
    /\ outcome = "pending"
    /\ result = None
    /\ spatial_filter = None
    /\ attr_filter = None
    /\ radii = <<>>
    /\ passes = 0
    /\ scans = 0
    /\ swallowed = FALSE
    /\ calls = [parse |-> 0, fallback |-> 0]
    /\ call = 1
    /\ first = None
    /\ mpc = "args"
    /\ address \in {None} \cup {Some(a) : a \in Addresses}
    /\ args_lat \in BOOLEAN
    /\ args_lon \in BOOLEAN
    /\ have_coords = (args_lat /\ args_lon)
    /\ candidates = <<>>
    /\ qi = 1
    /\ prov = 1
    /\ tried = <<>>
    /\ last_reply = "none"
    /\ exit_status = None

find_nearest_state ==
    <<max_radius_m, pc, cur_radius, best, outcome, result, filters, observations>>

\* "if args.address and (lat is None or lon is None)": build the candidates
\* and enter the provider loop with success = False.
BuildCandidates ==
    /\ mpc = "args"
    /\ address # None
    /\ ~(args_lat /\ args_lon)
    /\ \E order \in BaseOrders(address[1]) :
           candidates' = CandidatesIn(address[1], order)
    /\ mpc' = "geocode"
    /\ UNCHANGED <<inputs, caller, find_nearest_state, address, args_lat, args_lon,
                   have_coords, qi, prov, tried, last_reply, exit_status>>

\* No address to geocode, or both coordinates given.
SkipGeocoding ==
    /\ mpc = "args"
    /\ (address = None \/ (args_lat /\ args_lon))
    /\ mpc' = "coords"
    /\ UNCHANGED <<inputs, caller, find_nearest_state, address, args_lat, args_lon,
                   have_coords, candidates, qi, prov, tried, last_reply, exit_status>>

\* One iteration of the inner loop: provider(q) answers, returns None or
\* raises.  An answer sets lat, lon and success and breaks out of both
\* loops; otherwise the loops continue with the next provider, or with the
\* first provider of the next candidate.
ProviderCall ==
    /\ mpc = "geocode"
    /\ qi <= Len(candidates)
    /\ tried' = Append(tried, <<candidates[qi], Providers[prov]>>)
    /\ \E reply \in Replies :
           /\ last_reply' = reply
           /\ IF reply = "answer"
              THEN /\ have_coords' = TRUE
                   /\ mpc' = "coords"
                   /\ UNCHANGED <<qi, prov>>
              ELSE /\ qi' = IF prov = Len(Providers) THEN qi + 1 ELSE qi
                   /\ prov' = IF prov = Len(Providers) THEN 1 ELSE prov + 1
                   /\ UNCHANGED <<have_coords, mpc>>
    /\ UNCHANGED <<inputs, caller, find_nearest_state, address, args_lat, args_lon,
                   candidates, exit_status>>

\* "if not success": every candidate was tried with every provider.
AddressNotFound ==
    /\ mpc = "geocode"
    /\ qi > Len(candidates)
    /\ mpc' = "exit"
    /\ exit_status' = Some(3)
    /\ UNCHANGED <<inputs, caller, find_nearest_state, address, args_lat, args_lon,
                   have_coords, candidates, qi, prov, tried, last_reply>>

\* "if lat is None or lon is None": exit with status 2.
MissingCoordinates ==
    /\ mpc = "coords"
    /\ ~have_coords
    /\ mpc' = "exit"
    /\ exit_status' = Some(2)
    /\ UNCHANGED <<inputs, caller, find_nearest_state, address, args_lat, args_lon,
                   have_coords, candidates, qi, prov, tried, last_reply>>

\* res = find_nearest(...)
CallFindNearest ==
    /\ mpc = "coords"
    /\ have_coords
    /\ mpc' = "call"
    /\ pc' = "start"
    /\ UNCHANGED <<inputs, caller, max_radius_m, cur_radius, best, outcome, result,
                   filters, observations, address, args_lat, args_lon, have_coords,
                   candidates, qi, prov, tried, last_reply, exit_status>>

\* After the call: an uncaught exception ends the program with status 1, a
\* None result with status 2, a result is printed.
MainFinish ==
    /\ mpc = "call"
    /\ pc = "done"
    /\ mpc' = "exit"
    /\ exit_status' = IF outcome = "raised" THEN Some(1)
                      ELSE IF result = None THEN Some(2)
                      ELSE Some(0)
    /\ UNCHANGED <<inputs, caller, find_nearest_state, address, args_lat, args_lon,
                   have_coords, candidates, qi, prov, tried, last_reply>>

NextMain ==
    \/ BuildCandidates \/ SkipGeocoding \/ ProviderCall \/ AddressNotFound
    \/ MissingCoordinates \/ CallFindNearest \/ MainFinish
    \/ Open \/ OpenFails \/ BeginPass \/ SearchPass \/ Return

SpecMain == InitMain /\ [][NextMain]_vars

(***************************************************************************)
(* Stores of one feature near the query point, with the speed tags and the *)
(* road classes that exercise parse_maxspeed and dk_fallback_speed.        *)
(***************************************************************************)
TagTexts ==
    { <<"5", "0">>,
      <<"0">>,
      <<"5", ".", "5">>,
      <<" ", "5", "0", " ">>,
      <<" ", " ">>,
      <<"3", "0", " ", "m", "p", "h">>,
      <<"3", "0", "M", "P", "H">>,
      <<"m", "p", "h">>,
      <<"5", "0", "k", "m", "/", "h">>,
      <<"5", "0", " ", "k", "m", "/", "h">>,
      <<"1", ".", "2", ".", "3", "k", "m", "/", "h">>,
      <<"k", "m", "/", "h">>,
      <<"3", "0", ";", "5", "0">>,
      <<"D", "K", ":", "u", "r", "b", "a", "n">>,
      <<"s", "i", "g", "n", "a", "l", "s">>,
      <<>> }

TagValues == {None} \cup {Some(t) : t \in TagTexts}

ClassValues ==
    {None} \cup {Some(h) : h \in {"motorway", "Motorway", "motorway_link", "trunk",
                                   "primary", "secondary", "tertiary", "unclassified",
                                   "residential", "living_street", "service",
                                   "footway", "cycleway"}}

TagFeatures ==
    [pos : {<<8, 0>>}, highway : ClassValues, maxspeed : TagValues, distOk : {TRUE}]

InitTags ==
    /\ gpkg \in {"ok", "unopenable", "nolayer"}
    /\ store \in IF gpkg = "ok" THEN {<<f>> : f \in TagFeatures} ELSE {<<>>}
    /\ honours = TRUE
    /\ lat \in Lats
    /\ radius_m = 5 /\ arg_max_radius = 50
    /\ drivable_only \in BOOLEAN
    /\ prefer_tagged \in BOOLEAN
    /\ prefer_motorways \in BOOLEAN
    /\ InitCall

SpecTags == InitTags /\ [][Next]_vars

(***************************************************************************)
(* Stores for the ranking of a scan: features at equal distance on either  *)
(* side of the query point, features without geometry, and features whose  *)
(* distance computation raises.                                            *)
(***************************************************************************)
GeomPoints == {<<8, 0>>, <<-8, 0>>, <<0, 9>>, None}

GeomFeatures ==
    [pos : GeomPoints, highway : {Some("motorway"), Some("footway")},
     maxspeed : {None, Some(<<"5", "0">>)}, distOk : {TRUE}]
    \cup
    [pos : {<<8, 0>>}, highway : {Some("motorway"), Some("footway")},
     maxspeed : {None}, distOk : {FALSE}]

InitGeom ==
    /\ gpkg = "ok"
    /\ store \in SeqsUpTo(GeomFeatures, MaxFeatures)
    /\ honours = TRUE
    /\ lat \in Lats
    /\ radius_m = 5 /\ arg_max_radius = 50
    /\ drivable_only = TRUE
    /\ prefer_tagged \in BOOLEAN
    /\ prefer_motorways \in BOOLEAN
    /\ InitCall

NextGeom == Open \/ BeginPass \/ SearchPass \/ Return

SpecGeom == InitGeom /\ [][NextGeom]_vars

(***************************************************************************)
(* A store that ignores the attribute filter and returns every feature of  *)
(* the bounding box.                                                       *)
(***************************************************************************)
InitIgnore ==
    /\ gpkg \in {"ok", "unopenable", "nolayer"}
    /\ store \in IF gpkg = "ok" THEN Stores ELSE {<<>>}
    /\ honours = FALSE
    /\ InitArgs
    /\ InitCall

SpecIgnore == InitIgnore /\ [][Next]_vars

(***************************************************************************)
(* A store that can fail: a feature's Distance may raise, and a query      *)
(* (setting the attribute filter, reading the layer) may raise.            *)
(***************************************************************************)
FailFeatures ==
    [pos : Points, highway : {Some("motorway"), Some("footway")},
     maxspeed : {None, Some(<<"5", "0">>)}, distOk : BOOLEAN]

InitFail ==
    /\ gpkg \in {"ok", "unopenable", "nolayer"}
    /\ store \in IF gpkg = "ok" THEN SeqsUpTo(FailFeatures, MaxFeatures) ELSE {<<>>}
    /\ honours = TRUE
    /\ InitArgs
    /\ InitCall

\* A scan of a pass raises in "for feat in layer": any of the scans the pass
\* makes may be the one, and the read that raises may come after any number
\* of the scan's features were served.  The exception leaves find_nearest
\* with the spatial filter and the attribute filter of that scan still set,
\* after the Distance exceptions of the scans before it, and of the features
\* the failing scan had served, were swallowed.
QueryFails ==
    /\ pc = "scan"
    /\ \E p \in {PassResult(store, lat, cur_radius, prefer_motorways, drivable_only,
                               prefer_tagged, honours)} :
         \E k \in 1..p.scans :
           LET fs     == PassFilters(prefer_motorways, prefer_tagged)
               box    == SearchBox(lat, cur_radius)
               served == LayerFeatures(store, box, fs[k], honours)
           IN  \E m \in 0..Len(served) :
                 /\ attr_filter' = fs[k]
                 /\ scans' = k - 1
                 /\ swallowed' = (\/ swallowed
                                  \/ SwallowedIn(store, box, fs, k - 1, honours)
                                  \/ Raising(SubSeq(served, 1, m)) > 0)
    /\ pc' = "done"
    /\ outcome' = "raised"
    /\ UNCHANGED <<inputs, caller, cli, max_radius_m, cur_radius, best, result,
                   spatial_filter, radii, passes, calls>>

NextFail == Next \/ QueryFails

SpecFail == InitFail /\ [][NextFail]_vars

(***************************************************************************)
(* Vocabulary of the properties.                                           *)
(***************************************************************************)
\* The positions in the store of the features inside the box of radius r.
InBox(r) == {i \in DOMAIN store : Intersects(store[i], SearchBox(lat, r))}

Returned == pc = "done" /\ outcome = "returned"

Found == best # None

Winner == best[1].feat

NonEmptyTag(f) == f.maxspeed # None /\ f.maxspeed[1] # <<>>

HighwayIn(f, cats) == f.highway # None /\ f.highway[1] \in cats

\* The priority tiers that have a feature inside the box of radius r.
TiersPresent(r) ==
    {k \in DOMAIN PRIORITY_TIERS : \E i \in InBox(r) : HighwayIn(store[i], PRIORITY_TIERS[k])}

\* The class set the winner was selected from: its tier when the tier pass
\* ran and the winner is of a tier, otherwise the drivable set.
WinningSet ==
    IF prefer_motorways /\ \E k \in DOMAIN PRIORITY_TIERS : HighwayIn(Winner, PRIORITY_TIERS[k])
    THEN PRIORITY_TIERS[CHOOSE k \in DOMAIN PRIORITY_TIERS : HighwayIn(Winner, PRIORITY_TIERS[k])]
    ELSE DRIVABLE

(***************************************************************************)
(* C1.  Coverage: when the store holds a feature inside the search box of  *)
(* size maxRadius around the query point, a call that returns returns a    *)
(* result, never None.                                                     *)
(***************************************************************************)
C1_Coverage ==
    (Returned /\ InBox(arg_max_radius) # {}) => result # None

(***************************************************************************)
(* C2.  Tier precedence: with prefer_motorways, once a pass has selected a *)
(* feature, the feature is of the highest-priority tier that has a feature *)
(* inside the current search box, however much closer a feature of a lower *)
(* tier is.                                                                *)
(***************************************************************************)
C2_TierPrecedence ==
    (prefer_motorways /\ Found /\ TiersPresent(cur_radius) # {}) =>
        LET top == CHOOSE k \in TiersPresent(cur_radius) :
                       \A j \in TiersPresent(cur_radius) : k <= j
        IN  HighwayIn(Winner, PRIORITY_TIERS[top])

\* A motorway was selected although a residential road of the same box is
\* closer to the query point.
C2_Witness ==
    /\ Returned /\ prefer_motorways /\ Found
    /\ Winner.highway = Some("motorway")
    /\ \E i \in InBox(cur_radius) :
           /\ store[i].highway = Some("residential")
           /\ Distance(store[i]) < best[1].dist

(***************************************************************************)
(* C3.  Tag preference: with prefer_tagged, when the class set the winner  *)
(* was selected from has inside the search box a feature with a non-empty  *)
(* speed tag, the selected feature has a non-empty speed tag (a feature    *)
(* whose tag is absent or the empty string is not preferred to it).        *)
(***************************************************************************)
C3_TagPreference ==
    (prefer_tagged /\ Found
       /\ \E i \in InBox(cur_radius) :
              HighwayIn(store[i], WinningSet) /\ NonEmptyTag(store[i]))
    => NonEmptyTag(Winner)

(***************************************************************************)
(* C4.  Drivable-pass gating: with drivable_only false and the tier pass   *)
(* disabled, the selected feature is the minimum-distance feature among    *)
(* all features of the box, whatever its class or tag.                     *)
(***************************************************************************)
C4_DrivableGating ==
    (~drivable_only /\ ~prefer_motorways /\ Found) =>
        \A i \in InBox(cur_radius) : best[1].dist <= Distance(store[i])

(***************************************************************************)
(* C5.  Termination: every call of find_nearest terminates, whatever the   *)
(* initial and maximum radius (zero and negative values included) and      *)
(* whatever the store holds.                                               *)
(***************************************************************************)
C5_Terminates == <>(pc = "done")

(***************************************************************************)
(* C6.  Boundary: when initialRadius > maxRadius the effective maximum is  *)
(* raised to initialRadius and the call makes exactly one search pass, at  *)
(* radius initialRadius, and then returns.                                 *)
(***************************************************************************)
C6_SinglePass ==
    (radius_m > arg_max_radius) =>
        /\ pc # "start" => max_radius_m = radius_m
        /\ \A i \in DOMAIN radii : i = 1 /\ radii[i] = radius_m
        /\ Returned => radii = <<radius_m>>

(***************************************************************************)
(* C7.  Radius expansion: the radii searched are initialRadius,            *)
(* 2*initialRadius, 4*initialRadius, ... in that order, each at most the   *)
(* maximum radius and each searched only after every smaller one found     *)
(* nothing; for a store with a single feature 900 m from the query point,  *)
(* initialRadius = 500 m and maxRadius = 5000 m, the feature is not found  *)
(* in the 500 m pass and is found after one doubling, in the second pass,  *)
(* whose radius is 1000 m.                                                 *)
(***************************************************************************)
RECURSIVE Pow2(_)
Pow2(n) == IF n = 0 THEN 1 ELSE 2 * Pow2(n - 1)

\* One feature 900 m north of the query point, radius 500 m, maximum 5000 m.
C7_Scenario ==
    /\ Len(store) = 1 /\ store[1].pos = <<0, 9>>
    /\ radius_m = 5 /\ arg_max_radius = 50

C7_RadiusExpansion ==
    /\ \A i \in DOMAIN radii :
           /\ radii[i] = radius_m * Pow2(i - 1)
           /\ radii[i] <= max_radius_m
           /\ \A j \in 1..(i - 1) : InBox(radii[j]) = {}
    /\ (C7_Scenario /\ Returned) =>
           /\ radii = <<5, 10>>
           /\ cur_radius = 10
           /\ result # None /\ result[1].distance_deg = 9

C7_Witness == C7_Scenario /\ Returned /\ passes = 2 /\ result # None

\* The claim as written: the feature is found after two doublings.
C7_TwoDoublings ==
    (C7_Scenario /\ Returned) => (result # None /\ cur_radius = radius_m * 2 * 2)

(***************************************************************************)
(* C8.  Store-filter independence: the feature a pass selects is the same  *)
(* whether the store honours the attribute pre-filter or ignores it and    *)
(* returns every feature of the bounding box.  (Whether a box holds a      *)
(* candidate does not depend on the filter, so both stores select at the   *)
(* same radius.)                                                           *)
(***************************************************************************)
C8_FilterIndependence ==
    Found =>
        best = PassResult(store, lat, cur_radius, prefer_motorways, drivable_only,
                          prefer_tagged, TRUE).best

(***************************************************************************)
(* C9.  Not found is an absent result: a call on an openable store returns *)
(* and raises nothing; it returns None exactly when every search pass up   *)
(* to the maximum radius found no feature in its box; None comes without   *)
(* any call of the normalizer or the fallback classifier, and a result is  *)
(* the record of one feature of the store.                                 *)
(***************************************************************************)
C9_NotFoundIsAbsent ==
    (pc = "done" /\ gpkg = "ok") =>
        /\ outcome = "returned"
        /\ result = None <=>
              /\ \A i \in DOMAIN radii : InBox(radii[i]) = {}
              /\ cur_radius > max_radius_m
        /\ result = None => calls = [parse |-> 0, fallback |-> 0]
        /\ result # None =>
              /\ calls.parse = 1
              /\ \E i \in InBox(cur_radius) :
                     /\ result[1].highway = store[i].highway
                     /\ result[1].distance_deg = Distance(store[i])

\* None was returned after several passes over a store that holds a feature
\* outside every box searched.
C9_Witness ==
    /\ Returned /\ result = None /\ passes >= 1
    /\ store # <<>>
    /\ calls = [parse |-> 0, fallback |-> 0]

(***************************************************************************)
(* C10.  Store failure is surfaced: when the store cannot be opened, the   *)
(* 'roads' layer is missing or a query fails, a failing distance           *)
(* computation on a feature included, the call ends with an error, never   *)
(* with None or with a result computed from the remaining features.        *)
(***************************************************************************)
C10_FailureSurfaced ==
    (pc = "done" /\ (gpkg # "ok" \/ swallowed)) => outcome = "raised"

(***************************************************************************)
(* Vocabulary of the speed claims: written out by hand for the tags and    *)
(* classes of TagTexts and ClassValues.                                    *)
(***************************************************************************)
Kmh(n) == n * KmhScale

\* The tags of TagTexts no rule of the normalizer turns into a number.
UnparsableTexts ==
    { <<" ", " ">>, <<"m", "p", "h">>, <<"k", "m", "/", "h">>,
      <<"1", ".", "2", ".", "3", "k", "m", "/", "h">>,
      <<"D", "K", ":", "u", "r", "b", "a", "n">>,
      <<"s", "i", "g", "n", "a", "l", "s">>, <<>> }

TagParses(f) == f.maxspeed # None /\ f.maxspeed[1] \notin UnparsableTexts

\* The fixed table of the fallback classifier, by lower-cased class name.
TableSpeed(f) ==
    IF f.highway \in {Some("motorway"), Some("Motorway")} THEN Some(Kmh(130))
    ELSE IF f.highway = Some("trunk") THEN Some(Kmh(110))
    ELSE IF f.highway \in {Some("primary"), Some("secondary"), Some("tertiary"),
                          Some("unclassified")} THEN Some(Kmh(80))
    ELSE IF f.highway = Some("residential") THEN Some(Kmh(50))
    ELSE IF f.highway = Some("living_street") THEN Some(Kmh(15))
    ELSE IF f.highway = Some("service") THEN Some(Kmh(30))
    ELSE None

HasResult == Returned /\ result # None

(***************************************************************************)
(* C11.  Speed resolution: the numeric speed of the result is the          *)
(* normalizer's value when the winner's tag parses, otherwise the fallback *)
(* classifier's value for the winner's road class; it is absent only when  *)
(* the tag is absent or unparsable and the class is unmapped; a call       *)
(* returns whatever the tag, and the classifier is called only when the    *)
(* tag did not parse.                                                      *)
(***************************************************************************)
C11_SpeedResolution ==
    /\ (pc = "done" /\ gpkg = "ok") => outcome = "returned"
    /\ HasResult =>
          /\ TagParses(Winner) =>
                /\ result[1].maxspeed_kmh = parse_maxspeed(Winner.maxspeed).kmh
                /\ result[1].maxspeed_kmh # None
                /\ calls.fallback = 0
          /\ ~TagParses(Winner) =>
                /\ result[1].maxspeed_kmh = TableSpeed(Winner)
                /\ calls.fallback = 1
          /\ result[1].maxspeed_kmh = None <=>
                (~TagParses(Winner) /\ TableSpeed(Winner) = None)

\* A residential road tagged "0": the parsed speed 0 stands, the classifier's
\* 50 km/h is not consulted.
C11_Witness ==
    /\ HasResult
    /\ Winner.highway = Some("residential") /\ Winner.maxspeed = Some(<<"0">>)
    /\ result[1].maxspeed_kmh = Some(0)

(***************************************************************************)
(* C12.  Normalizer rules, in the order mph suffix, km/h suffix, any       *)
(* digit, colon, otherwise: '50' gives raw '50' and 50; '30 mph' gives     *)
(* 30 * 1.60934 = 48.2802; '50km/h' gives 50; 'DK:urban' gives the raw tag *)
(* and no number; '' and an absent tag give no raw value and no number; a  *)
(* tag with a suffix and no parsable number ('mph', '1.2.3km/h') gives no  *)
(* number and raises nothing.                                              *)
(***************************************************************************)
Parsed == parse_maxspeed(Winner.maxspeed)

C12_NormalizerRules ==
    HasResult =>
      /\ result[1].maxspeed_raw = Parsed.raw
      /\ Winner.maxspeed = Some(<<"5", "0">>) =>
            Parsed = [raw |-> Some(<<"5", "0">>), kmh |-> Some(Kmh(50))]
      /\ Winner.maxspeed = Some(<<"3", "0", " ", "m", "p", "h">>) =>
            Parsed = [raw |-> Some(<<"3", "0", " ", "m", "p", "h">>), kmh |-> Some(4828020)]
      /\ Winner.maxspeed = Some(<<"3", "0", "M", "P", "H">>) => Parsed.kmh = Some(4828020)
      /\ Winner.maxspeed = Some(<<"5", "0", "k", "m", "/", "h">>) => Parsed.kmh = Some(Kmh(50))
      /\ Winner.maxspeed = Some(<<"5", "0", " ", "k", "m", "/", "h">>) =>
            Parsed.kmh = Some(Kmh(50))
      /\ Winner.maxspeed = Some(<<"3", "0", ";", "5", "0">>) =>
            Parsed.kmh = Some(Kmh(3050))
      /\ Winner.maxspeed = Some(<<"D", "K", ":", "u", "r", "b", "a", "n">>) =>
            Parsed = [raw |-> Some(<<"D", "K", ":", "u", "r", "b", "a", "n">>), kmh |-> None]
      /\ Winner.maxspeed \in {None, Some(<<>>)} => Parsed = [raw |-> None, kmh |-> None]
      /\ Winner.maxspeed \in {Some(<<"m", "p", "h">>),
                              Some(<<"1", ".", "2", ".", "3", "k", "m", "/", "h">>)} =>
            (Parsed.kmh = None /\ Parsed.raw = Winner.maxspeed)

\* A footway tagged '30 mph': the result carries 48.2802 km/h.
C12_Witness ==
    /\ HasResult
    /\ Winner.maxspeed = Some(<<"3", "0", " ", "m", "p", "h">>)
    /\ Winner.highway = Some("footway")
    /\ result[1].maxspeed_kmh = Some(4828020)

(***************************************************************************)
(* C13.  Raw tag preserved: for a tag that is present and non-empty the    *)
(* raw value of the result is the tag unchanged, leading and trailing      *)
(* whitespace included; the raw value is absent only for an empty or       *)
(* absent tag.                                                             *)
(***************************************************************************)
C13_RawPreserved ==
    HasResult =>
      /\ (Winner.maxspeed # None /\ Winner.maxspeed[1] # <<>>) =>
            result[1].maxspeed_raw = Winner.maxspeed
      /\ result[1].maxspeed_raw = None <=> Winner.maxspeed \in {None, Some(<<>>)}

(***************************************************************************)
(* C14.  Fallback classifier: for a winner without a tag the numeric speed *)
(* is 130 for 'motorway', the fixed table value for every mapped class and *)
(* absent, without an error, for every unmapped or absent class such as    *)
(* 'footway'.                                                              *)
(***************************************************************************)
C14_FallbackTable ==
    (HasResult /\ Winner.maxspeed = None) =>
      /\ result[1].maxspeed_kmh = TableSpeed(Winner)
      /\ Winner.highway = Some("motorway") => result[1].maxspeed_kmh = Some(Kmh(130))
      /\ Winner.highway \in {None, Some("footway"), Some("cycleway"), Some("motorway_link")}
            => result[1].maxspeed_kmh = None

\* An untagged footway was returned with no numeric speed.
C14_Witness ==
    /\ HasResult /\ Winner.maxspeed = None /\ Winner.highway = Some("footway")
    /\ result[1].maxspeed_kmh = None /\ calls.fallback = 1

(***************************************************************************)
(* The set a winner is ranked in, written from the store: the features of  *)
(* the current box whose distance can be computed, narrowed to the first   *)
(* non-empty tier (with prefer_motorways), else to the drivable classes,   *)
(* else not at all; and within a class set to the tagged features, when    *)
(* prefer_tagged and there is one.                                         *)
(***************************************************************************)
Rankable(r) ==
    {i \in DOMAIN store :
        /\ store[i].pos # None
        /\ store[i].distOk
        /\ LET dx == r * (IF lat = 60 THEN 2 ELSE 1)
           IN  Abs(store[i].pos[1]) <= dx /\ Abs(store[i].pos[2]) <= r}

OfClasses(r, cats) == {i \in Rankable(r) : HighwayIn(store[i], cats)}

TaggedFirst(set) ==
    IF prefer_tagged /\ \E i \in set : store[i].maxspeed # None
    THEN {i \in set : store[i].maxspeed # None}
    ELSE set

SelectedSet(r) ==
    LET tiers == {k \in DOMAIN PRIORITY_TIERS : OfClasses(r, PRIORITY_TIERS[k]) # {}}
    IN  IF prefer_motorways /\ tiers # {}
        THEN TaggedFirst(OfClasses(r, PRIORITY_TIERS[CHOOSE k \in tiers :
                                                       \A j \in tiers : k <= j]))
        ELSE IF OfClasses(r, DRIVABLE) # {} THEN TaggedFirst(OfClasses(r, DRIVABLE))
        ELSE Rankable(r)

SquaredDistance(i) == store[i].pos[1] * store[i].pos[1] + store[i].pos[2] * store[i].pos[2]

(***************************************************************************)
(* C16.  Minimum distance: the winner is a feature of smallest distance to *)
(* the query point within the set it was selected from; features without   *)
(* geometry (or whose distance cannot be computed) are not ranked; of      *)
(* features at equal distance the first the store returned is kept; the    *)
(* distance reported is the winner's.                                      *)
(***************************************************************************)
C16_MinimumDistance ==
    Found =>
      LET S == SelectedSet(cur_radius)
      IN  /\ S # {}
          /\ \E w \in S :
                /\ \A j \in S : \/ SquaredDistance(w) < SquaredDistance(j)
                                \/ (SquaredDistance(w) = SquaredDistance(j) /\ w <= j)
                /\ Winner = store[w]
                /\ best[1].dist * best[1].dist = SquaredDistance(w)
          /\ HasResult => result[1].distance_deg = best[1].dist

\* Two different motorways at distance 8 on either side of the point: the one
\* the store returns first is the winner.
C16_Witness ==
    /\ HasResult /\ Len(store) = 2
    /\ store[1].pos = <<8, 0>> /\ store[2].pos = <<-8, 0>>
    /\ store[1].highway = store[2].highway /\ store[1].maxspeed = store[2].maxspeed
    /\ store[1].distOk /\ store[2].distOk
    /\ Winner = store[1] /\ result[1].distance_deg = 8

\* A feature without geometry precedes the winner in the store and was passed over.
C16_GeometrySkipped ==
    /\ HasResult /\ Len(store) = 2
    /\ store[1].pos = None /\ store[1].highway = Some("motorway")
    /\ Winner = store[2] /\ Winner.highway = Some("footway")

(***************************************************************************)
(* C17.  Store left untouched: whenever a call returns normally, with a    *)
(* result or with None, the layer's spatial filter and attribute filter    *)
(* are both cleared; between two passes both are cleared; and no step of a *)
(* call changes a feature of the store.                                    *)
(***************************************************************************)
C17_StoreUntouched ==
    /\ [](Returned => (spatial_filter = None /\ attr_filter = None))
    /\ [](pc = "loop" => (spatial_filter = None /\ attr_filter = None))
    /\ [][store' = store]_vars

\* A call returned a feature found in its second pass: filters were set in
\* both passes and none is left on the layer.
C17_Witness ==
    /\ HasResult /\ passes = 2 /\ scans > 0
    /\ spatial_filter = None /\ attr_filter = None

(***************************************************************************)
(* C18.  Smallest radius wins over class priority: the radius is doubled   *)
(* only after a pass whose box holds no feature with a computable          *)
(* distance; the winner comes from the first box that holds one, and once  *)
(* selected it is never replaced, so a motorway that only a larger box     *)
(* would reach never replaces a feature of a lower class found in a        *)
(* smaller box.                                                            *)
(***************************************************************************)
EarlierRadii == {radii[n] : n \in 1..(Len(radii) - 1)}

C18_SmallestRadiusWins ==
    /\ [](Found =>
            /\ \E i \in Rankable(cur_radius) : store[i] = Winner
            /\ \A r \in EarlierRadii : Rankable(r) = {}
            /\ cur_radius = radii[Len(radii)])
    /\ []((pc = "loop" /\ ~Found /\ radii # <<>>) =>
            /\ \A n \in DOMAIN radii : Rankable(radii[n]) = {}
            /\ cur_radius = 2 * radii[Len(radii)])
    /\ [][Found => best' = best]_vars

\* At latitude 60 the first box reaches the footway at <<8, 0>> and not the
\* motorway at <<0, 9>>: with prefer_motorways the footway is returned.
C18_Witness ==
    /\ HasResult /\ prefer_motorways /\ passes = 1
    /\ Winner.highway = Some("footway") /\ Winner.pos = <<8, 0>>
    /\ \E i \in DOMAIN store :
           /\ store[i].highway = Some("motorway") /\ store[i].pos = <<0, 9>>
           /\ store[i].distOk
           /\ i \in Rankable(2 * cur_radius)

TriedInOrder ==
    \A k \in DOMAIN tried :
        /\ (k + 1) \div 2 <= Len(candidates)
        /\ tried[k] = <<candidates[(k + 1) \div 2],
                        IF k % 2 = 1 THEN "nominatim" ELSE "photon">>

AllTried == Len(tried) = 2 * Len(candidates)

C19_GeocoderFallback ==
    /\ [](tried # <<>> => (address # None /\ ~(args_lat /\ args_lon)))
    /\ []TriedInOrder
    /\ []((last_reply \in {"empty", "exception"} /\ ~AllTried) =>
             (mpc = "geocode" /\ exit_status = None /\ pc = "idle"))
    /\ [][last_reply = "answer" => tried' = tried]_vars
    /\ []((mpc = "exit" /\ tried # <<>> /\ last_reply # "answer") =>
             (AllTried /\ exit_status = Some(3) /\ pc = "idle"))
    /\ [](exit_status = Some(3) =>
             (AllTried /\ tried # <<>> /\ last_reply # "answer" /\ pc = "idle"))

\* An address with a house number range and without "denmark": four
\* candidates, eight calls, no answer, exit status 3, find_nearest not called.
C19_Witness ==
    /\ mpc = "exit" /\ exit_status = Some(3)
    /\ Len(candidates) = 4 /\ Len(tried) = 8
    /\ tried[7][2] = "nominatim" /\ tried[8][2] = "photon"
    /\ tried[7][1] = candidates[4]
    /\ last_reply = "exception"
    /\ pc = "idle"

\* The second candidate's Photon call answered after three failures, and
\* find_nearest returned a result for the geocoded point.
C19_AnswerEndsLoop ==
    /\ mpc = "exit" /\ exit_status = Some(0)
    /\ Len(tried) = 4 /\ Len(candidates) > 2
    /\ last_reply = "answer"
    /\ HasResult

====
